---- MODULE Spec2Model ----
\* dotplot_assembly of bin/workflow_glue/report_utils/report_utils.py:
\* the MAF parsing loop, the typed data frame and the two segment glyphs.
EXTENDS Integers, Sequences, FiniteSets, TLC

\* ------------------------------------------------------------------ text
\* A string is a sequence of one-character strings; "" is <<>>.

\* A character Python has no TLA+ literal for is written as its Python escape,
\* backslash included: "\\x0b" is the one character \x0b.

\* the characters str.isspace() holds of: what str.split() and str.strip() take
\* for whitespace
Whitespace ==
  { "\t", "\n", "\\x0b", "\f", "\r", "\\x1c", "\\x1d", "\\x1e",
    "\\x1f", " ", "\\x85", "\\xa0", "\\u1680", "\\u2000", "\\u2001", "\\u2002",
    "\\u2003", "\\u2004", "\\u2005", "\\u2006", "\\u2007", "\\u2008", "\\u2009", "\\u200a",
    "\\u2028", "\\u2029", "\\u202f", "\\u205f", "\\u3000" }

\* what int() strips around the number: the same, less \x1c-\x1f
IntWhitespace == Whitespace \ {"\\x1c", "\\x1d", "\\x1e", "\\x1f"}

\* the decimal digits int() reads, ASCII and the other Unicode Nd characters, each
\* row holding the digits 0-9 of one script
DecimalDigits ==
  << <<"0", "1", "2", "3", "4", "5", "6", "7", "8", "9">>,
     <<"\\u0660", "\\u0661", "\\u0662", "\\u0663", "\\u0664", "\\u0665", "\\u0666", "\\u0667", "\\u0668", "\\u0669">>,
     <<"\\u06f0", "\\u06f1", "\\u06f2", "\\u06f3", "\\u06f4", "\\u06f5", "\\u06f6", "\\u06f7", "\\u06f8", "\\u06f9">>,
     <<"\\u07c0", "\\u07c1", "\\u07c2", "\\u07c3", "\\u07c4", "\\u07c5", "\\u07c6", "\\u07c7", "\\u07c8", "\\u07c9">>,
     <<"\\u0966", "\\u0967", "\\u0968", "\\u0969", "\\u096a", "\\u096b", "\\u096c", "\\u096d", "\\u096e", "\\u096f">>,
     <<"\\u09e6", "\\u09e7", "\\u09e8", "\\u09e9", "\\u09ea", "\\u09eb", "\\u09ec", "\\u09ed", "\\u09ee", "\\u09ef">>,
     <<"\\u0a66", "\\u0a67", "\\u0a68", "\\u0a69", "\\u0a6a", "\\u0a6b", "\\u0a6c", "\\u0a6d", "\\u0a6e", "\\u0a6f">>,
     <<"\\u0ae6", "\\u0ae7", "\\u0ae8", "\\u0ae9", "\\u0aea", "\\u0aeb", "\\u0aec", "\\u0aed", "\\u0aee", "\\u0aef">>,
     <<"\\u0b66", "\\u0b67", "\\u0b68", "\\u0b69", "\\u0b6a", "\\u0b6b", "\\u0b6c", "\\u0b6d", "\\u0b6e", "\\u0b6f">>,
     <<"\\u0be6", "\\u0be7", "\\u0be8", "\\u0be9", "\\u0bea", "\\u0beb", "\\u0bec", "\\u0bed", "\\u0bee", "\\u0bef">>,
     <<"\\u0c66", "\\u0c67", "\\u0c68", "\\u0c69", "\\u0c6a", "\\u0c6b", "\\u0c6c", "\\u0c6d", "\\u0c6e", "\\u0c6f">>,
     <<"\\u0ce6", "\\u0ce7", "\\u0ce8", "\\u0ce9", "\\u0cea", "\\u0ceb", "\\u0cec", "\\u0ced", "\\u0cee", "\\u0cef">>,
     <<"\\u0d66", "\\u0d67", "\\u0d68", "\\u0d69", "\\u0d6a", "\\u0d6b", "\\u0d6c", "\\u0d6d", "\\u0d6e", "\\u0d6f">>,
     <<"\\u0de6", "\\u0de7", "\\u0de8", "\\u0de9", "\\u0dea", "\\u0deb", "\\u0dec", "\\u0ded", "\\u0dee", "\\u0def">>,
     <<"\\u0e50", "\\u0e51", "\\u0e52", "\\u0e53", "\\u0e54", "\\u0e55", "\\u0e56", "\\u0e57", "\\u0e58", "\\u0e59">>,
     <<"\\u0ed0", "\\u0ed1", "\\u0ed2", "\\u0ed3", "\\u0ed4", "\\u0ed5", "\\u0ed6", "\\u0ed7", "\\u0ed8", "\\u0ed9">>,
     <<"\\u0f20", "\\u0f21", "\\u0f22", "\\u0f23", "\\u0f24", "\\u0f25", "\\u0f26", "\\u0f27", "\\u0f28", "\\u0f29">>,
     <<"\\u1040", "\\u1041", "\\u1042", "\\u1043", "\\u1044", "\\u1045", "\\u1046", "\\u1047", "\\u1048", "\\u1049">>,
     <<"\\u1090", "\\u1091", "\\u1092", "\\u1093", "\\u1094", "\\u1095", "\\u1096", "\\u1097", "\\u1098", "\\u1099">>,
     <<"\\u17e0", "\\u17e1", "\\u17e2", "\\u17e3", "\\u17e4", "\\u17e5", "\\u17e6", "\\u17e7", "\\u17e8", "\\u17e9">>,
     <<"\\u1810", "\\u1811", "\\u1812", "\\u1813", "\\u1814", "\\u1815", "\\u1816", "\\u1817", "\\u1818", "\\u1819">>,
     <<"\\u1946", "\\u1947", "\\u1948", "\\u1949", "\\u194a", "\\u194b", "\\u194c", "\\u194d", "\\u194e", "\\u194f">>,
     <<"\\u19d0", "\\u19d1", "\\u19d2", "\\u19d3", "\\u19d4", "\\u19d5", "\\u19d6", "\\u19d7", "\\u19d8", "\\u19d9">>,
     <<"\\u1a80", "\\u1a81", "\\u1a82", "\\u1a83", "\\u1a84", "\\u1a85", "\\u1a86", "\\u1a87", "\\u1a88", "\\u1a89">>,
     <<"\\u1a90", "\\u1a91", "\\u1a92", "\\u1a93", "\\u1a94", "\\u1a95", "\\u1a96", "\\u1a97", "\\u1a98", "\\u1a99">>,
     <<"\\u1b50", "\\u1b51", "\\u1b52", "\\u1b53", "\\u1b54", "\\u1b55", "\\u1b56", "\\u1b57", "\\u1b58", "\\u1b59">>,
     <<"\\u1bb0", "\\u1bb1", "\\u1bb2", "\\u1bb3", "\\u1bb4", "\\u1bb5", "\\u1bb6", "\\u1bb7", "\\u1bb8", "\\u1bb9">>,
     <<"\\u1c40", "\\u1c41", "\\u1c42", "\\u1c43", "\\u1c44", "\\u1c45", "\\u1c46", "\\u1c47", "\\u1c48", "\\u1c49">>,
     <<"\\u1c50", "\\u1c51", "\\u1c52", "\\u1c53", "\\u1c54", "\\u1c55", "\\u1c56", "\\u1c57", "\\u1c58", "\\u1c59">>,
     <<"\\ua620", "\\ua621", "\\ua622", "\\ua623", "\\ua624", "\\ua625", "\\ua626", "\\ua627", "\\ua628", "\\ua629">>,
     <<"\\ua8d0", "\\ua8d1", "\\ua8d2", "\\ua8d3", "\\ua8d4", "\\ua8d5", "\\ua8d6", "\\ua8d7", "\\ua8d8", "\\ua8d9">>,
     <<"\\ua900", "\\ua901", "\\ua902", "\\ua903", "\\ua904", "\\ua905", "\\ua906", "\\ua907", "\\ua908", "\\ua909">>,
     <<"\\ua9d0", "\\ua9d1", "\\ua9d2", "\\ua9d3", "\\ua9d4", "\\ua9d5", "\\ua9d6", "\\ua9d7", "\\ua9d8", "\\ua9d9">>,
     <<"\\ua9f0", "\\ua9f1", "\\ua9f2", "\\ua9f3", "\\ua9f4", "\\ua9f5", "\\ua9f6", "\\ua9f7", "\\ua9f8", "\\ua9f9">>,
     <<"\\uaa50", "\\uaa51", "\\uaa52", "\\uaa53", "\\uaa54", "\\uaa55", "\\uaa56", "\\uaa57", "\\uaa58", "\\uaa59">>,
     <<"\\uabf0", "\\uabf1", "\\uabf2", "\\uabf3", "\\uabf4", "\\uabf5", "\\uabf6", "\\uabf7", "\\uabf8", "\\uabf9">>,
     <<"\\uff10", "\\uff11", "\\uff12", "\\uff13", "\\uff14", "\\uff15", "\\uff16", "\\uff17", "\\uff18", "\\uff19">>,
     <<"\\U000104a0", "\\U000104a1", "\\U000104a2", "\\U000104a3", "\\U000104a4", "\\U000104a5", "\\U000104a6", "\\U000104a7", "\\U000104a8", "\\U000104a9">>,
     <<"\\U00010d30", "\\U00010d31", "\\U00010d32", "\\U00010d33", "\\U00010d34", "\\U00010d35", "\\U00010d36", "\\U00010d37", "\\U00010d38", "\\U00010d39">>,
     <<"\\U00011066", "\\U00011067", "\\U00011068", "\\U00011069", "\\U0001106a", "\\U0001106b", "\\U0001106c", "\\U0001106d", "\\U0001106e", "\\U0001106f">>,
     <<"\\U000110f0", "\\U000110f1", "\\U000110f2", "\\U000110f3", "\\U000110f4", "\\U000110f5", "\\U000110f6", "\\U000110f7", "\\U000110f8", "\\U000110f9">>,
     <<"\\U00011136", "\\U00011137", "\\U00011138", "\\U00011139", "\\U0001113a", "\\U0001113b", "\\U0001113c", "\\U0001113d", "\\U0001113e", "\\U0001113f">>,
     <<"\\U000111d0", "\\U000111d1", "\\U000111d2", "\\U000111d3", "\\U000111d4", "\\U000111d5", "\\U000111d6", "\\U000111d7", "\\U000111d8", "\\U000111d9">>,
     <<"\\U000112f0", "\\U000112f1", "\\U000112f2", "\\U000112f3", "\\U000112f4", "\\U000112f5", "\\U000112f6", "\\U000112f7", "\\U000112f8", "\\U000112f9">>,
     <<"\\U00011450", "\\U00011451", "\\U00011452", "\\U00011453", "\\U00011454", "\\U00011455", "\\U00011456", "\\U00011457", "\\U00011458", "\\U00011459">>,
     <<"\\U000114d0", "\\U000114d1", "\\U000114d2", "\\U000114d3", "\\U000114d4", "\\U000114d5", "\\U000114d6", "\\U000114d7", "\\U000114d8", "\\U000114d9">>,
     <<"\\U00011650", "\\U00011651", "\\U00011652", "\\U00011653", "\\U00011654", "\\U00011655", "\\U00011656", "\\U00011657", "\\U00011658", "\\U00011659">>,
     <<"\\U000116c0", "\\U000116c1", "\\U000116c2", "\\U000116c3", "\\U000116c4", "\\U000116c5", "\\U000116c6", "\\U000116c7", "\\U000116c8", "\\U000116c9">>,
     <<"\\U00011730", "\\U00011731", "\\U00011732", "\\U00011733", "\\U00011734", "\\U00011735", "\\U00011736", "\\U00011737", "\\U00011738", "\\U00011739">>,
     <<"\\U000118e0", "\\U000118e1", "\\U000118e2", "\\U000118e3", "\\U000118e4", "\\U000118e5", "\\U000118e6", "\\U000118e7", "\\U000118e8", "\\U000118e9">>,
     <<"\\U00011950", "\\U00011951", "\\U00011952", "\\U00011953", "\\U00011954", "\\U00011955", "\\U00011956", "\\U00011957", "\\U00011958", "\\U00011959">>,
     <<"\\U00011c50", "\\U00011c51", "\\U00011c52", "\\U00011c53", "\\U00011c54", "\\U00011c55", "\\U00011c56", "\\U00011c57", "\\U00011c58", "\\U00011c59">>,
     <<"\\U00011d50", "\\U00011d51", "\\U00011d52", "\\U00011d53", "\\U00011d54", "\\U00011d55", "\\U00011d56", "\\U00011d57", "\\U00011d58", "\\U00011d59">>,
     <<"\\U00011da0", "\\U00011da1", "\\U00011da2", "\\U00011da3", "\\U00011da4", "\\U00011da5", "\\U00011da6", "\\U00011da7", "\\U00011da8", "\\U00011da9">>,
     <<"\\U00016a60", "\\U00016a61", "\\U00016a62", "\\U00016a63", "\\U00016a64", "\\U00016a65", "\\U00016a66", "\\U00016a67", "\\U00016a68", "\\U00016a69">>,
     <<"\\U00016ac0", "\\U00016ac1", "\\U00016ac2", "\\U00016ac3", "\\U00016ac4", "\\U00016ac5", "\\U00016ac6", "\\U00016ac7", "\\U00016ac8", "\\U00016ac9">>,
     <<"\\U00016b50", "\\U00016b51", "\\U00016b52", "\\U00016b53", "\\U00016b54", "\\U00016b55", "\\U00016b56", "\\U00016b57", "\\U00016b58", "\\U00016b59">>,
     <<"\\U0001d7ce", "\\U0001d7cf", "\\U0001d7d0", "\\U0001d7d1", "\\U0001d7d2", "\\U0001d7d3", "\\U0001d7d4", "\\U0001d7d5", "\\U0001d7d6", "\\U0001d7d7">>,
     <<"\\U0001d7d8", "\\U0001d7d9", "\\U0001d7da", "\\U0001d7db", "\\U0001d7dc", "\\U0001d7dd", "\\U0001d7de", "\\U0001d7df", "\\U0001d7e0", "\\U0001d7e1">>,
     <<"\\U0001d7e2", "\\U0001d7e3", "\\U0001d7e4", "\\U0001d7e5", "\\U0001d7e6", "\\U0001d7e7", "\\U0001d7e8", "\\U0001d7e9", "\\U0001d7ea", "\\U0001d7eb">>,
     <<"\\U0001d7ec", "\\U0001d7ed", "\\U0001d7ee", "\\U0001d7ef", "\\U0001d7f0", "\\U0001d7f1", "\\U0001d7f2", "\\U0001d7f3", "\\U0001d7f4", "\\U0001d7f5">>,
     <<"\\U0001d7f6", "\\U0001d7f7", "\\U0001d7f8", "\\U0001d7f9", "\\U0001d7fa", "\\U0001d7fb", "\\U0001d7fc", "\\U0001d7fd", "\\U0001d7fe", "\\U0001d7ff">>,
     <<"\\U0001e140", "\\U0001e141", "\\U0001e142", "\\U0001e143", "\\U0001e144", "\\U0001e145", "\\U0001e146", "\\U0001e147", "\\U0001e148", "\\U0001e149">>,
     <<"\\U0001e2f0", "\\U0001e2f1", "\\U0001e2f2", "\\U0001e2f3", "\\U0001e2f4", "\\U0001e2f5", "\\U0001e2f6", "\\U0001e2f7", "\\U0001e2f8", "\\U0001e2f9">>,
     <<"\\U0001e950", "\\U0001e951", "\\U0001e952", "\\U0001e953", "\\U0001e954", "\\U0001e955", "\\U0001e956", "\\U0001e957", "\\U0001e958", "\\U0001e959">>,
     <<"\\U0001fbf0", "\\U0001fbf1", "\\U0001fbf2", "\\U0001fbf3", "\\U0001fbf4", "\\U0001fbf5", "\\U0001fbf6", "\\U0001fbf7", "\\U0001fbf8", "\\U0001fbf9">> >>

DigitChars == {DecimalDigits[r][d] : r \in 1..Len(DecimalDigits), d \in 1..10}

DigitValue ==
  [c \in DigitChars |->
     (CHOOSE d \in 1..10 : \E r \in 1..Len(DecimalDigits) : DecimalDigits[r][d] = c) - 1]

DigitVal(c) == DigitValue[c]

\* str.startswith(prefix)
StartsWith(line, prefix) ==
  /\ Len(line) >= Len(prefix)
  /\ SubSeq(line, 1, Len(prefix)) = prefix

\* str.split(): maximal runs of non-whitespace characters
RECURSIVE SplitFrom(_, _, _, _)
SplitFrom(line, i, cur, acc) ==
  IF i > Len(line)
    THEN (IF cur = <<>> THEN acc ELSE Append(acc, cur))
    ELSE IF line[i] \in Whitespace
      THEN SplitFrom(line, i + 1, <<>>, IF cur = <<>> THEN acc ELSE Append(acc, cur))
      ELSE SplitFrom(line, i + 1, Append(cur, line[i]), acc)

split(line) == SplitFrom(line, 1, <<>>, <<>>)

\* Python slice s[lo:hi] with 0 <= lo <= hi (0-based, hi exclusive, clipped)
Slice(s, lo, hi) == SubSeq(s, lo + 1, IF hi < Len(s) THEN hi ELSE Len(s))

\* str.find(pat) from 1-based index i: index of the first occurrence, 0 if none
RECURSIVE Find(_, _, _)
Find(line, pat, i) ==
  IF i + Len(pat) - 1 > Len(line) THEN 0
  ELSE IF SubSeq(line, i, i + Len(pat) - 1) = pat THEN i
  ELSE Find(line, pat, i + 1)

\* pat in line
Contains(line, pat) == Find(line, pat, 1) # 0

\* str.split(sep) with an explicit separator
RECURSIVE SplitOn(_, _)
SplitOn(line, sep) ==
  LET k == Find(line, sep, 1) IN
  IF k = 0 THEN <<line>>
  ELSE <<SubSeq(line, 1, k - 1)>> \o SplitOn(SubSeq(line, k + Len(sep), Len(line)), sep)

\* s without the leading and trailing characters that are in ws
RECURSIVE StripChars(_, _)
StripChars(s, ws) ==
  IF s = <<>> THEN s
  ELSE IF s[1] \in ws THEN StripChars(Tail(s), ws)
  ELSE IF s[Len(s)] \in ws THEN StripChars(SubSeq(s, 1, Len(s) - 1), ws)
  ELSE s

\* str.strip()
Strip(s) == StripChars(s, Whitespace)

RECURSIVE DigitsValue(_, _)
DigitsValue(s, acc) ==
  IF s = <<>> THEN acc
  ELSE IF s[1] = "_" THEN DigitsValue(Tail(s), acc)
  ELSE DigitsValue(Tail(s), 10 * acc + DigitVal(s[1]))

\* digits, single underscores allowed between digits
DigitString(s) ==
  /\ s # <<>>
  /\ \A i \in 1..Len(s) : s[i] \in DigitChars \/ s[i] = "_"
  /\ s[1] # "_" /\ s[Len(s)] # "_"
  /\ \A i \in 1..(Len(s) - 1) : ~(s[i] = "_" /\ s[i + 1] = "_")

\* int(text): [ok |-> TRUE, val |-> n], or ok = FALSE where int raises ValueError
int(text) ==
  LET t == StripChars(text, IntWhitespace)
      signed == t # <<>> /\ t[1] \in {"+", "-"}
      body == IF signed THEN Tail(t) ELSE t
  IN IF DigitString(body)
       THEN [ok |-> TRUE,
             val |-> IF signed /\ t[1] = "-" THEN 0 - DigitsValue(body, 0)
                     ELSE DigitsValue(body, 0)]
       ELSE [ok |-> FALSE, val |-> 0]

\* ---------------------------------------------------------------- inputs
\* Lines of the files the function is run on.

RECURSIVE JoinTokens(_)
JoinTokens(toks) ==
  IF toks = <<>> THEN <<>>
  ELSE IF Len(toks) = 1 THEN toks[1]
  ELSE toks[1] \o <<" ">> \o JoinTokens(Tail(toks))

TextLine(toks) == JoinTokens(toks) \o <<"\n">>

SLine(name, start, len, strand, size) ==
  TextLine(<< <<"s">>, name, start, len, strand, size >>)

ALine == TextLine(<< <<"a">>, <<"s", "c", "o", "r", "e", "=", "5">> >>)
BlankLine == <<"\n">>
JunkLine == TextLine(<< <<"x">> >>)

letters == <<"l", "e", "t", "t", "e", "r", "s">>
lettersEq == letters \o <<"=">>

PlainComment == TextLine(<< <<"#">>, <<"l", "a", "s", "t">> >>)
LettersHeader == TextLine(<< <<"#">>, <<"q">>, lettersEq \o <<"8">> >>)
LettersAgain == TextLine(<< <<"#">>, <<"q">>, lettersEq \o <<"1", "2">> >>)
LettersNoEq == TextLine(<< <<"#">>, letters >>)
LettersNotInt == TextLine(<< <<"#">>, lettersEq \o <<"x">> >>)
LettersFormFeed == TextLine(<< <<"#">>, lettersEq \o <<"\f", "9", "\f">> >>)
LettersUnitSep == TextLine(<< <<"#">>, lettersEq \o <<"\\x1f", "9">> >>)

RefFwd == SLine(<<"r">>, <<"3">>, <<"2">>, <<"+">>, <<"9">>)
RefRev == SLine(<<"r">>, <<"1", "0">>, <<"2">>, <<"-">>, <<"1", "5">>)
RefShort == TextLine(<< <<"s">>, <<"r">>, <<"3">> >>)
RefNotInt == SLine(<<"r">>, <<"z">>, <<"2">>, <<"+">>, <<"9">>)
RefFormFeed == <<"s", "\f", "r", "\\x1f", "4", " ", "2", "\t", "-", " ", "9", "\n">>

QryFwd == SLine(<<"q">>, <<"1">>, <<"4">>, <<"+">>, <<"8">>)
QryRev == SLine(<<"q">>, <<"2">>, <<"3">>, <<"-">>, <<"8">>)
QryOddStrand == SLine(<<"q">>, <<"1">>, <<"4">>, <<"x">>, <<"8">>)
QryShort == TextLine(<< <<"s">>, <<"q">>, <<"1">>, <<"4">> >>)

Block(ref, qry, sep) == <<ALine, ref, qry, sep>>

GoodBlocks ==
  {Block(r, q, BlankLine) : r \in {RefFwd, RefRev}, q \in {QryFwd, QryRev}}
    \cup {Block(RefFormFeed, QryFwd, BlankLine)}

OddBlocks ==
  { Block(RefFwd, QryOddStrand, BlankLine), Block(RefFwd, QryShort, BlankLine),
    Block(RefShort, QryFwd, BlankLine), Block(RefNotInt, QryFwd, BlankLine),
    Block(RefFwd, QryFwd, JunkLine), <<ALine>> }

SingleLines ==
  { <<PlainComment>>, <<LettersAgain>>, <<LettersNoEq>>, <<LettersNotInt>>,
    <<LettersFormFeed>>, <<LettersUnitSep>>,
    <<BlankLine>>, <<JunkLine>> }

Chunks == GoodBlocks \cup OddBlocks \cup SingleLines

MaxChunks == 2

RECURSIVE ChunkSeqs(_)
ChunkSeqs(n) ==
  IF n = 0 THEN {<<>>}
  ELSE LET shorter == ChunkSeqs(n - 1) IN
       shorter \cup {s \o c : s \in shorter, c \in Chunks}

Files == {h \o b : h \in {<<>>, <<LettersHeader>>}, b \in ChunkSeqs(MaxChunks)}

\* ----------------------------------------------------------------- state
VARIABLES
  exists,       \* whether mafs/<maf_assembly> can be opened
  maf,          \* the lines of the file
  pos,          \* number of lines readline() has returned so far
  handle,       \* "unopened", "open" or "closed"
  read_length,  \* the local read_length: unbound until a letters= line is read
  records,      \* the list records
  df_all,       \* the typed data frame, one row per record
  plot,         \* the glyphs added to the figure, in order
  pc,           \* "start", "loop", "frame", "fwd", "rev", "done" (returned), "failed" (raised)
  err           \* the exception raised, "" if none

vars == <<exists, maf, pos, handle, read_length, records, df_all, plot, pc, err>>

Unbound == [bound |-> FALSE, val |-> 0]
Bound(n) == [bound |-> TRUE, val |-> n]

None == <<>>
NaN == [nan |-> TRUE, v |-> 0]
Num(n) == [nan |-> FALSE, v |-> n]

Init ==
  /\ exists \in BOOLEAN
  /\ maf \in (IF exists THEN Files ELSE {<<>>})
  /\ pos = 0
  /\ handle = "unopened"
  /\ read_length = Unbound
  /\ records = <<>>
  /\ df_all = <<>>
  /\ plot = <<>>
  /\ pc = "start"
  /\ err = ""

\* maf.readline(): the next line, "" at end of file
readline == IF pos < Len(maf) THEN maf[pos + 1] ELSE <<>>
LineAt(k) == IF k <= Len(maf) THEN maf[k] ELSE <<>>
Advance(n) == IF pos + n < Len(maf) THEN pos + n ELSE Len(maf)

\* the handle closed only after the loop, not on the way out of an exception
RaiseLeaky(e) ==
  /\ pc' = "failed"
  /\ err' = e
  /\ handle' = handle

\* leaving the with block by an exception: the handle is closed, the error propagates
Raise(e) ==
  /\ pc' = "failed"
  /\ err' = e
  /\ handle' = IF handle = "open" THEN "closed" ELSE handle

\* with open(f"mafs/{maf_assembly}") as maf:
Open ==
  /\ pc = "start"
  /\ IF exists
       THEN /\ handle' = "open"
            /\ pc' = "loop"
            /\ err' = err
       ELSE /\ pc' = "failed"
            /\ err' = "FileNotFoundError"
            /\ handle' = handle
  /\ UNCHANGED <<exists, maf, pos, read_length, records, df_all, plot>>

\* if line.startswith('#'): the read-length comment, or any other comment
CommentLine ==
  /\ pc = "loop"
  /\ StartsWith(readline, <<"#">>)
  /\ pos' = Advance(1)
  /\ IF Contains(readline, letters)
       THEN LET pieces == SplitOn(readline, lettersEq) IN
            IF Len(pieces) < 2
              THEN Raise("IndexError") /\ read_length' = read_length
              ELSE IF int(pieces[2]).ok
                THEN /\ read_length' = Bound(int(pieces[2]).val)
                     /\ UNCHANGED <<pc, err, handle>>
                ELSE Raise("ValueError") /\ read_length' = read_length
       ELSE UNCHANGED <<read_length, pc, err, handle>>
  /\ UNCHANGED <<exists, maf, records, df_all, plot>>

\* the slice taken one field early, the 's' tag included
SeqFieldsFromTag(line) == Slice(split(line), 0, 4)

\* maf.readline().split()[1:5]
SeqFields(line) == Slice(split(line), 1, 5)

\* r1 + r2 of the two lines after the 'a' line
BlockRecord(line1, line2) == SeqFields(line1) \o SeqFields(line2)

\* one readline too many after the two 's' lines
BlockSpanLong == 2 + 3

\* lines consumed by one alignment: the 'a' line, two 's' lines and one more
BlockSpan == 4

\* elif line.startswith('a'):
AlignmentBlock ==
  /\ pc = "loop"
  /\ ~StartsWith(readline, <<"#">>)
  /\ StartsWith(readline, <<"a">>)
  /\ records' = Append(records, BlockRecord(LineAt(pos + 2), LineAt(pos + 3)))
  /\ pos' = Advance(BlockSpan)
  /\ UNCHANGED <<exists, maf, handle, read_length, df_all, plot, pc, err>>

\* a blank line taken for the end of the file
IsEofStripped(line) == Strip(line) = <<>>

\* elif line == "": break
IsEof(line) == line = <<>>

EndOfFile ==
  /\ pc = "loop"
  /\ ~StartsWith(readline, <<"#">>)
  /\ ~StartsWith(readline, <<"a">>)
  /\ IsEof(readline)
  /\ pc' = "frame"
  /\ handle' = "closed"
  /\ UNCHANGED <<exists, maf, pos, read_length, records, df_all, plot, err>>

\* else: raise IOError("Cannot read alignment file")
OtherLine ==
  /\ pc = "loop"
  /\ ~StartsWith(readline, <<"#">>)
  /\ ~StartsWith(readline, <<"a">>)
  /\ ~IsEof(readline)
  /\ pos' = Advance(1)
  /\ Raise("IOError")
  /\ UNCHANGED <<exists, maf, read_length, records, df_all, plot>>

\* ------------------------------------------------------------ data frame
names == <<"ref", "rstart", "rlen", "rorient", "query", "qstart", "qlen", "qorient">>

\* pd.DataFrame pads short rows of a list of lists with None
Cell(rec, j) == IF j <= Len(rec) THEN rec[j] ELSE None

MaxOf(S) == CHOOSE m \in S : \A n \in S : n <= m
MinOf(S) == CHOOSE m \in S : \A n \in S : m <= n

\* columns found in the records: the length of the longest one
DataWidth(recs) == MaxOf({Len(recs[i]) : i \in 1..Len(recs)})

\* pd.DataFrame(records, columns=names): "8 columns passed, passed data had k columns"
FrameError(recs) ==
  IF recs # <<>> /\ DataWidth(recs) # Len(names) THEN "ValueError" ELSE ""

\* Series.astype(int) of column j: the first cell int() rejects decides the error
ColumnCastError(recs, j) ==
  LET bad == {i \in 1..Len(recs) :
                Cell(recs[i], j) = None \/ ~int(Cell(recs[i], j)).ok} IN
  IF bad = {} THEN ""
  ELSE IF Cell(recs[MinOf(bad)], j) = None THEN "TypeError" ELSE "ValueError"

\* df_all.astype({'qstart': int, 'qlen': int, 'rstart': int, 'rlen': int}),
\* cast column by column in the frame's column order
CastColumns == <<2, 3, 6, 7>>

RECURSIVE AstypeErrorFrom(_, _)
AstypeErrorFrom(recs, k) ==
  IF k > Len(CastColumns) THEN ""
  ELSE IF ColumnCastError(recs, CastColumns[k]) # ""
    THEN ColumnCastError(recs, CastColumns[k])
    ELSE AstypeErrorFrom(recs, k + 1)

AstypeError(recs) == AstypeErrorFrom(recs, 1)

\* row i of df_all (index i - 1) after the cast
TypedRow(recs, i) ==
  [ index |-> i - 1,
    ref |-> Cell(recs[i], 1),
    rstart |-> int(Cell(recs[i], 2)).val,
    rlen |-> int(Cell(recs[i], 3)).val,
    rorient |-> Cell(recs[i], 4),
    query |-> Cell(recs[i], 5),
    qstart |-> int(Cell(recs[i], 6)).val,
    qlen |-> int(Cell(recs[i], 7)).val,
    qorient |-> Cell(recs[i], 8) ]

\* df_all = pd.DataFrame(records, columns=names); df_all = df_all.astype(...)
BuildFrame ==
  /\ pc = "frame"
  /\ IF FrameError(records) # ""
       THEN Raise(FrameError(records)) /\ df_all' = df_all
       ELSE IF AstypeError(records) # ""
         THEN Raise(AstypeError(records)) /\ df_all' = df_all
         ELSE /\ df_all' = [i \in 1..Len(records) |-> TypedRow(records, i)]
              /\ pc' = "fwd"
              /\ UNCHANGED <<err, handle>>
  /\ UNCHANGED <<exists, maf, pos, read_length, records, plot>>

\* df_all[df_all.qorient.isin([strand])]: the rows kept, in frame order
RECURSIVE SelectRows(_, _)
SelectRows(rows, strand) ==
  IF rows = <<>> THEN <<>>
  ELSE IF rows[1].qorient = strand
    THEN <<rows[1]>> \o SelectRows(Tail(rows), strand)
    ELSE SelectRows(Tail(rows), strand)

\* rstart overwritten before rend is taken from it
ForwardRowStartFirst(row) ==
  LET moved == IF row.rorient = <<"-">> THEN row.rstart - row.rlen ELSE row.rstart IN
  [ index |-> row.index, rorient |-> row.rorient, qorient |-> row.qorient,
    rlen |-> row.rlen, qlen |-> row.qlen,
    qstart |-> row.qstart,
    qend |-> row.qstart + row.qlen,
    rend |-> IF row.rorient = <<"+">> THEN Num(row.rstart + row.rlen)
             ELSE IF row.rorient = <<"-">> THEN Num(moved)
             ELSE NaN,
    rstart |-> moved ]

\* the reference orientation ignored: every row treated as a forward reference
ForwardRowNoSwap(row) ==
  [ index |-> row.index, rorient |-> row.rorient, qorient |-> row.qorient,
    rlen |-> row.rlen, qlen |-> row.qlen,
    qstart |-> row.qstart,
    qend |-> row.qstart + row.qlen,
    rend |-> Num(row.rstart + row.rlen),
    rstart |-> row.rstart ]

\* the columns of one row with forward query: qend, then rend by reference
\* orientation, then rstart moved back for a reverse reference
ForwardRow(row) ==
  [ index |-> row.index, rorient |-> row.rorient, qorient |-> row.qorient,
    rlen |-> row.rlen, qlen |-> row.qlen,
    qstart |-> row.qstart,
    qend |-> row.qstart + row.qlen,
    rend |-> IF row.rorient = <<"+">> THEN Num(row.rstart + row.rlen)
             ELSE IF row.rorient = <<"-">> THEN Num(row.rstart)
             ELSE NaN,
    rstart |-> IF row.rorient = <<"-">> THEN row.rstart - row.rlen ELSE row.rstart ]

\* the reference swap of the forward branch applied in the reverse branch too
ReverseRowSwapped(row, L) ==
  [ index |-> row.index, rorient |-> row.rorient, qorient |-> row.qorient,
    rlen |-> row.rlen, qlen |-> row.qlen,
    qstart |-> L - row.qstart,
    qend |-> (L - row.qstart) - row.qlen,
    rend |-> IF row.rorient = <<"-">> THEN Num(row.rstart) ELSE Num(row.rstart + row.rlen),
    rstart |-> IF row.rorient = <<"-">> THEN row.rstart - row.rlen ELSE row.rstart ]

\* the columns of one row with reverse query
ReverseRow(row, L) ==
  [ index |-> row.index, rorient |-> row.rorient, qorient |-> row.qorient,
    rlen |-> row.rlen, qlen |-> row.qlen,
    qstart |-> L - row.qstart,
    qend |-> (L - row.qstart) - row.qlen,
    rend |-> Num(row.rstart + row.rlen),
    rstart |-> row.rstart ]

\* Segment(x0='rstart', y0='qstart', x1='rend', y1='qend', line_color=color) over df
Glyph(color, rows) == [line_color |-> color, source |-> rows]

\* the forward-query rows and their black glyph
ForwardSegments ==
  /\ pc = "fwd"
  /\ LET df == SelectRows(df_all, <<"+">>) IN
     plot' = Append(plot, Glyph("black", [i \in 1..Len(df) |-> ForwardRow(df[i])]))
  /\ pc' = "rev"
  /\ UNCHANGED <<exists, maf, pos, handle, read_length, records, df_all, err>>

\* read_length looked up only when there is a reverse-query row to mirror
ReadLengthMissingLazy(df) == ~read_length.bound /\ df # <<>>

\* whether evaluating read_length - df['qstart'] raises UnboundLocalError
ReadLengthMissing(df) == ~read_length.bound

\* the reverse-query rows, their red glyph, and return plot
ReverseSegments ==
  /\ pc = "rev"
  /\ LET df == SelectRows(df_all, <<"-">>) IN
     IF ReadLengthMissing(df)
       THEN Raise("UnboundLocalError") /\ plot' = plot
       ELSE /\ plot' = Append(plot,
                 Glyph("red", [i \in 1..Len(df) |-> ReverseRow(df[i], read_length.val)]))
            /\ pc' = "done"
            /\ UNCHANGED <<err, handle>>
  /\ UNCHANGED <<exists, maf, pos, read_length, records, df_all>>

Next ==
  \/ Open
  \/ CommentLine
  \/ AlignmentBlock
  \/ EndOfFile
  \/ OtherLine
  \/ BuildFrame
  \/ ForwardSegments
  \/ ReverseSegments

Spec == Init /\ [][Next]_vars

\* ---------------------------------------------------------------- claims
Terminal == pc \in {"done", "failed"}
PastLoop == pc \in {"frame", "fwd", "rev", "done"}

\* the rows behind the black and the red glyph, once added
BlackRows == IF Len(plot) >= 1 THEN plot[1].source ELSE <<>>
RedRows == IF Len(plot) >= 2 THEN plot[2].source ELSE <<>>
PlottedRows == BlackRows \o RedRows

\* the parsed block a plotted row comes from
Parsed(row) == df_all[row.index + 1]

\* a comment line the loop passes without raising
QuietComment(line) ==
  \/ ~Contains(line, letters)
  \/ /\ Len(SplitOn(line, lettersEq)) >= 2
     /\ int(SplitOn(line, lettersEq)[2]).ok

\* an 's' line of the format: s name start length strand size
WellFormedSeqLine(line) ==
  LET t == split(line) IN
  /\ StartsWith(line, <<"s">>)
  /\ Len(t) >= 6
  /\ t[1] = <<"s">>
  /\ int(t[3]).ok /\ int(t[4]).ok
  /\ t[5] \in {<<"+">>, <<"-">>}

\* the file from line k on is comments and whole blocks only
RECURSIVE WellFormedFrom(_)
WellFormedFrom(k) ==
  IF k > Len(maf) THEN TRUE
  ELSE IF StartsWith(maf[k], <<"#">>)
    THEN QuietComment(maf[k]) /\ WellFormedFrom(k + 1)
  ELSE IF StartsWith(maf[k], <<"a">>)
    THEN /\ k + 3 <= Len(maf)
         /\ WellFormedSeqLine(maf[k + 1])
         /\ WellFormedSeqLine(maf[k + 2])
         /\ ~StartsWith(maf[k + 3], <<"s">>)
         /\ WellFormedFrom(k + 4)
  ELSE FALSE

WellFormedFile == exists /\ WellFormedFrom(1)

\* the 'a' lines of the file, and the n-th of them
ALines == {k \in 1..Len(maf) : StartsWith(maf[k], <<"a">>)}
NthALine(n) == CHOOSE k \in ALines : Cardinality({j \in ALines : j < k}) = n - 1

\* fields 2-5 (counted from 1) of an 's' line
Fields2To5(line) == SubSeq(split(line), 2, 5)

\* the lines the loop reads at block level, from line k on
RECURSIVE BlockLevelFrom(_)
BlockLevelFrom(k) ==
  IF k > Len(maf) THEN {}
  ELSE {k} \cup
       (IF StartsWith(maf[k], <<"#">>)
          THEN (IF QuietComment(maf[k]) THEN BlockLevelFrom(k + 1) ELSE {})
        ELSE IF StartsWith(maf[k], <<"a">>) THEN BlockLevelFrom(k + 4)
        ELSE {})

BlockLevel == BlockLevelFrom(1)
BlockHeads == {k \in BlockLevel : StartsWith(maf[k], <<"a">>)}
LettersLines == {k \in BlockLevel : StartsWith(maf[k], <<"#">>) /\ Contains(maf[k], lettersEq)}
LastLetters == int(SplitOn(maf[MaxOf(LettersLines)], lettersEq)[2]).val

\* C1 as stated: every plotted block with a reverse reference, whatever its query
\* orientation, has reference_end = parsed reference_start and
\* reference_start = parsed reference_start - reference_length.
C1_ReverseReferenceAnyQuery ==
  \A j \in 1..Len(PlottedRows) :
    LET row == PlottedRows[j] IN
    row.rorient = <<"-">> =>
      /\ row.rend = Num(Parsed(row).rstart)
      /\ row.rstart = Parsed(row).rstart - Parsed(row).rlen

\* C1 amended: every parsed block with a reverse reference and a forward query is
\* plotted in the black glyph with reference_end = parsed reference_start and
\* reference_start = parsed reference_start - reference_length.
C1_ReverseReferenceForwardQuery ==
  plot # <<>> =>
    \A i \in 1..Len(df_all) :
      (df_all[i].rorient = <<"-">> /\ df_all[i].qorient = <<"+">>) =>
        \E j \in 1..Len(BlackRows) :
          /\ BlackRows[j].index = i - 1
          /\ BlackRows[j].rend = Num(df_all[i].rstart)
          /\ BlackRows[j].rstart = df_all[i].rstart - df_all[i].rlen

C1_Witness ==
  /\ pc = "done"
  /\ \E j \in 1..Len(BlackRows) : BlackRows[j].rorient = <<"-">>
  /\ \E j \in 1..Len(RedRows) : RedRows[j].rorient = <<"-">>

\* C2 as stated, on files that are otherwise well-formed and carry a letters=
\* header: if the third line after some 'a' line is not a well-formed 's' line,
\* the call ends in the "Cannot read alignment file" error with zero segments.
C2_ThirdLineChecked ==
  ( /\ Terminal
    /\ WellFormedFile
    /\ LettersLines # {}
    /\ \E k \in ALines : ~WellFormedSeqLine(LineAt(k + 3)) ) =>
    (pc = "failed" /\ err = "IOError" /\ PlottedRows = <<>>)

\* C2 amended: if the fourth line after an 'a' line read at block level exists and
\* begins with neither '#' nor 'a', the call never returns, adds no segment, and
\* the exception it ends in is the "Cannot read alignment file" error; the third
\* line after the 'a' line is discarded unexamined.
C2_FourthLineChecked ==
  (\E k \in BlockHeads :
      /\ k + 4 <= Len(maf)
      /\ ~StartsWith(maf[k + 4], <<"#">>)
      /\ ~StartsWith(maf[k + 4], <<"a">>)) =>
    /\ pc # "done"
    /\ plot = <<>>
    /\ ~PastLoop
    /\ (pc = "failed" => err = "IOError")

C2_Witness ==
  /\ pc = "failed" /\ err = "IOError"
  /\ records # <<>>
  /\ \E k \in BlockHeads : k + 4 = pos /\ maf[k + 3] = JunkLine

\* C3: no block is silently skipped: when the call returns, every block
\* introduced by an 'a' line has contributed exactly one segment (black plus red
\* segments equal the number of records).
C3_NoSilentSkip ==
  pc = "done" => Len(BlackRows) + Len(RedRows) = Len(records)

\* C4: for a well-formed file the loop yields one record per 'a' line, in file
\* order, each holding fields 2-5 of the block's reference line followed by
\* fields 2-5 of its query line, and the loop raises nothing.
C4_ParseCount ==
  WellFormedFile =>
    /\ (pc = "failed" => err = "UnboundLocalError")
    /\ (pc = "loop" => Len(records) = Cardinality({k \in ALines : k <= pos}))
    /\ (PastLoop \/ pc = "failed") =>
         /\ Len(records) = Cardinality(ALines)
         /\ \A n \in 1..Len(records) :
              records[n] = Fields2To5(maf[NthALine(n) + 1]) \o Fields2To5(maf[NthALine(n) + 2])

C4_Witness ==
  /\ WellFormedFile
  /\ pc = "frame"
  /\ Len(records) = 2
  /\ records[1] # records[2]

\* C5: every block with a reverse query is plotted in the red glyph as
\* (reference_start, L - query_start) to (reference_start + reference_length,
\* L - query_start - query_length), L being the value of the last letters=
\* comment read, with reference_start as parsed whatever the block's reference
\* orientation.
C5_ReverseQueryMirror ==
  pc = "done" =>
    /\ LettersLines # {}
    /\ Len(RedRows) = Cardinality({i \in 1..Len(df_all) : df_all[i].qorient = <<"-">>})
    /\ \A i \in 1..Len(df_all) :
         df_all[i].qorient = <<"-">> =>
           \E j \in 1..Len(RedRows) :
             /\ RedRows[j].index = i - 1
             /\ RedRows[j].rstart = df_all[i].rstart
             /\ RedRows[j].qstart = LastLetters - df_all[i].qstart
             /\ RedRows[j].rend = Num(df_all[i].rstart + df_all[i].rlen)
             /\ RedRows[j].qend = LastLetters - df_all[i].qstart - df_all[i].qlen

C5_Witness ==
  /\ pc = "done"
  /\ plot[2].line_color = "red"
  /\ \E j \in 1..Len(RedRows) : RedRows[j].rorient = <<"-">>
  /\ Cardinality(LettersLines) = 2

\* C6: every block with a forward query is plotted in the black glyph with
\* query_start as parsed and query_end - query_start = query_length; with a
\* forward reference reference_start is as parsed and reference_end =
\* reference_start + reference_length; with a reverse reference reference_end is
\* the parsed reference_start and reference_start = parsed reference_start -
\* reference_length.
C6_ForwardQuerySegment ==
  plot # <<>> =>
    /\ plot[1].line_color = "black"
    /\ Len(BlackRows) = Cardinality({i \in 1..Len(df_all) : df_all[i].qorient = <<"+">>})
    /\ \A i \in 1..Len(df_all) :
         df_all[i].qorient = <<"+">> =>
           \E j \in 1..Len(BlackRows) :
             LET row == BlackRows[j] IN
             /\ row.index = i - 1
             /\ row.qstart = df_all[i].qstart
             /\ row.qend - row.qstart = df_all[i].qlen
             /\ df_all[i].rorient = <<"+">> =>
                  /\ row.rstart = df_all[i].rstart
                  /\ row.rend = Num(row.rstart + df_all[i].rlen)
             /\ df_all[i].rorient = <<"-">> =>
                  /\ row.rend = Num(df_all[i].rstart)
                  /\ row.rstart = df_all[i].rstart - df_all[i].rlen

C6_Witness ==
  /\ pc = "rev"
  /\ \E j \in 1..Len(BlackRows) : BlackRows[j].rorient = <<"+">>
  /\ \E j \in 1..Len(BlackRows) : BlackRows[j].rorient = <<"-">>

\* C7: a file that is well-formed but has no letters= comment never returns a
\* plot, and the exception it ends in is the unbound read_length, whether its
\* blocks have reverse queries, forward queries only, or there are no blocks.
C7_MissingHeader ==
  (WellFormedFile /\ \A k \in 1..Len(maf) : ~Contains(maf[k], lettersEq)) =>
    /\ pc # "done"
    /\ ~read_length.bound
    /\ pc = "failed" => err = "UnboundLocalError"

C7_Witness ==
  /\ WellFormedFile
  /\ \A k \in 1..Len(maf) : ~Contains(maf[k], lettersEq)
  /\ pc = "failed" /\ err = "UnboundLocalError"
  /\ Len(BlackRows) = Len(df_all)
  /\ Len(df_all) >= 1

C7_WitnessNoBlocks ==
  /\ WellFormedFile
  /\ ALines = {}
  /\ LettersLines = {}
  /\ pc = "failed" /\ err = "UnboundLocalError"

\* C8: a '#' line without the token letters= is ignored: reading it raises
\* nothing, leaves read_length and the records unchanged, and the loop goes on to
\* the next line.
C8_OtherCommentsIgnored ==
  [][ (pc = "loop" /\ StartsWith(readline, <<"#">>) /\ ~Contains(readline, lettersEq)) =>
        /\ pc' = "loop"
        /\ err' = ""
        /\ read_length' = read_length
        /\ records' = records
        /\ pos' = pos + 1 ]_vars

\* C9: at block level a non-empty line that begins with neither '#' nor 'a', a
\* blank line included, ends the call in the "Cannot read alignment file" error,
\* which leaves no glyph; the empty end-of-file string ends the loop with the
\* records collected so far and no error.
C9_OtherLineFails ==
  /\ [](err = "IOError" => (pc = "failed" /\ plot = <<>> /\ df_all = <<>>))
  /\ [][ ( /\ pc = "loop"
           /\ ~StartsWith(readline, <<"#">>)
           /\ ~StartsWith(readline, <<"a">>)
           /\ readline # <<>> ) =>
         (pc' = "failed" /\ err' = "IOError") ]_vars
  /\ [][ (pc = "loop" /\ readline = <<>>) =>
         (pc' = "frame" /\ err' = "" /\ records' = records) ]_vars

C9_Witness ==
  /\ pc = "failed" /\ err = "IOError"
  /\ records # <<>>
  /\ maf[pos] = BlankLine

\* C10: the file handle is open only while the loop runs: it is closed when the
\* loop ends at end of file and when a line raises, and it is closed throughout
\* the frame construction and the two segment passes.
C10_HandleReleased ==
  /\ pc = "loop" => handle = "open"
  /\ PastLoop => handle = "closed"
  /\ pc = "failed" => handle # "open"
  /\ (pc = "failed" /\ exists) => handle = "closed"

C10_Witness ==
  /\ pc = "failed"
  /\ err \in {"IOError", "IndexError", "ValueError"}
  /\ plot = <<>>
  /\ df_all = <<>>
  /\ pos < Len(maf)
  /\ handle = "closed"

====
